---- MODULE Spec2Model ----
(***************************************************************************)
(* A model of elmirror.py, the Elm package mirror script.                  *)
(*                                                                         *)
(* Strings (package names, version strings, paths) are sequences of        *)
(* one-character strings, so that the regular expressions, the path        *)
(* arithmetic of os.path and the character-wise os.path.commonprefix are   *)
(* computed the way the code computes them.                                *)
(***************************************************************************)
EXTENDS Integers, Sequences, FiniteSets, TLC

(***************************************************************************)
(* Character classes of the regular expressions.                           *)
(***************************************************************************)
Lower ==
  {"a","b","c","d","e","f","g","h","i","j","k","l","m",
   "n","o","p","q","r","s","t","u","v","w","x","y","z"}

Upper ==
  {"A","B","C","D","E","F","G","H","I","J","K","L","M",
   "N","O","P","Q","R","S","T","U","V","W","X","Y","Z"}

Digit ==
  {"0","1","2","3","4","5","6","7","8","9"}

Alnum ==
  Lower \cup Upper \cup Digit

SEP ==
  "/"

(***************************************************************************)
(* str methods and os.path functions used by the script.                   *)
(***************************************************************************)
startswith(s, p) ==
  /\ Len(p) <= Len(s)
  /\ SubSeq(s, 1, Len(p)) = p

endswith(s, p) ==
  /\ Len(p) <= Len(s)
  /\ SubSeq(s, Len(s) - Len(p) + 1, Len(s)) = p

RECURSIVE rstrip(_, _)
rstrip(s, c) ==
  IF s # <<>> /\ s[Len(s)] = c
    THEN rstrip(SubSeq(s, 1, Len(s) - 1), c)
    ELSE s

\* str.split(sep): the pieces between the separators, empty pieces kept.
RECURSIVE split(_, _)
split(s, c) ==
  IF \E i \in 1..Len(s) : s[i] = c
    THEN LET i == CHOOSE k \in 1..Len(s) :
                    /\ s[k] = c
                    /\ \A j \in 1..(k - 1) : s[j] # c
         IN  <<SubSeq(s, 1, i - 1)>> \o split(SubSeq(s, i + 1, Len(s)), c)
    ELSE <<s>>

\* sep.join(parts)
RECURSIVE sepjoin(_)
sepjoin(parts) ==
  IF parts = <<>> THEN <<>>
  ELSE IF Len(parts) = 1 THEN parts[1]
  ELSE parts[1] \o <<SEP>> \o sepjoin(Tail(parts))

\* posixpath.join(a, b): an absolute b replaces a.
join2(a, b) ==
  IF startswith(b, <<SEP>>) THEN b
  ELSE IF a = <<>> \/ endswith(a, <<SEP>>) THEN a \o b
  ELSE a \o <<SEP>> \o b

join3(a, b, c) ==
  join2(join2(a, b), c)

\* The component stack of posixpath.normpath.
RECURSIVE normcomps(_, _, _)
normcomps(comps, acc, rooted) ==
  IF comps = <<>> THEN acc
  ELSE LET c == Head(comps)
           rest == Tail(comps)
       IN  IF c = <<>> \/ c = <<".">> THEN normcomps(rest, acc, rooted)
           ELSE IF \/ c # <<".", ".">>
                   \/ (~rooted /\ acc = <<>>)
                   \/ (acc # <<>> /\ acc[Len(acc)] = <<".", ".">>)
                  THEN normcomps(rest, Append(acc, c), rooted)
           ELSE IF acc # <<>>
                  THEN normcomps(rest, SubSeq(acc, 1, Len(acc) - 1), rooted)
           ELSE normcomps(rest, acc, rooted)

normpath(path) ==
  IF path = <<>> THEN <<".">>
  ELSE LET rooted == startswith(path, <<SEP>>)
           two == /\ startswith(path, <<SEP, SEP>>)
                  /\ ~startswith(path, <<SEP, SEP, SEP>>)
           body == sepjoin(normcomps(split(path, SEP), <<>>, rooted))
           out == IF two THEN <<SEP, SEP>> \o body
                  ELSE IF rooted THEN <<SEP>> \o body
                  ELSE body
       IN  IF out = <<>> THEN <<".">> ELSE out

\* os.path.abspath(path) in working directory cwd.
abspath(cwd, path) ==
  IF startswith(path, <<SEP>>) THEN normpath(path)
  ELSE normpath(join2(cwd, path))

\* os.path.commonprefix([a, b]): the longest common prefix, character by
\* character.
RECURSIVE commonprefix(_, _)
commonprefix(a, b) ==
  IF a # <<>> /\ b # <<>> /\ Head(a) = Head(b)
    THEN <<Head(a)>> \o commonprefix(Tail(a), Tail(b))
    ELSE <<>>

(***************************************************************************)
(* The name validator: REPO_EXPR and is_valid_repo_name.                   *)
(***************************************************************************)
NL ==
  "\n"

UserChars ==
  Alnum \cup {"-"}

RepoFirstChars ==
  Alnum \cup {"_", "-"}

RepoChars ==
  Alnum \cup {"_", ".", "-"}

\* ([a-zA-Z0-9][a-zA-Z0-9-]*[a-zA-Z0-9])
user_group(u) ==
  /\ Len(u) >= 2
  /\ u[1] \in Alnum
  /\ u[Len(u)] \in Alnum
  /\ \A i \in 1..Len(u) : u[i] \in UserChars

\* ([a-zA-Z0-9_-][a-zA-Z0-9_.-]*)
repo_group(r) ==
  /\ Len(r) >= 1
  /\ r[1] \in RepoFirstChars
  /\ \A i \in 1..Len(r) : r[i] \in RepoChars

\* ^ user / repo with the end of the string right after the repo group.
repo_expr_fullmatch(name) ==
  LET parts == split(name, SEP)
  IN  /\ Len(parts) = 2
      /\ user_group(parts[1])
      /\ repo_group(parts[2])

\* REPO_EXPR.match(name): "$" also matches just before one final newline.
is_valid_repo_name(name) ==
  \/ repo_expr_fullmatch(name)
  \/ /\ endswith(name, <<NL>>)
     /\ repo_expr_fullmatch(SubSeq(name, 1, Len(name) - 1))

\* (user, repo) = package_name.split('/') raises ValueError unless there
\* are exactly two pieces.
split_raises(package_name) ==
  Len(split(package_name, SEP)) # 2

package_git_dir(root, package_name) ==
  LET parts == split(package_name, SEP)
  IN  join3(root, parts[1], parts[2])

package_user_path(root, package_name) ==
  join2(root, split(package_name, SEP)[1])

(***************************************************************************)
(* The version parser and comparator.                                      *)
(***************************************************************************)
\* parse_semver's None; every version tuple has three elements.
None ==
  <<>>

DigitValue(c) ==
  CASE c = "0" -> 0 [] c = "1" -> 1 [] c = "2" -> 2 [] c = "3" -> 3
    [] c = "4" -> 4 [] c = "5" -> 5 [] c = "6" -> 6 [] c = "7" -> 7
    [] c = "8" -> 8 [] c = "9" -> 9

\* int(s) of a string of decimal digits.
RECURSIVE int(_)
int(s) ==
  IF s = <<>> THEN 0
  ELSE 10 * int(SubSeq(s, 1, Len(s) - 1)) + DigitValue(s[Len(s)])

\* (\d+)
digits_group(s) ==
  /\ Len(s) >= 1
  /\ \A i \in 1..Len(s) : s[i] \in Digit

semver_fullmatch(s) ==
  LET parts == split(s, ".")
  IN  /\ Len(parts) = 3
      /\ \A i \in 1..3 : digits_group(parts[i])

semver_tuple(s) ==
  LET parts == split(s, ".")
  IN  <<int(parts[1]), int(parts[2]), int(parts[3])>>

\* re.match(r'^(\d+)\.(\d+)\.(\d+)$', s): the tuple of ints, or None.
parse_semver(s) ==
  IF semver_fullmatch(s) THEN semver_tuple(s)
  ELSE IF endswith(s, <<NL>>) /\ semver_fullmatch(SubSeq(s, 1, Len(s) - 1))
    THEN semver_tuple(SubSeq(s, 1, Len(s) - 1))
  ELSE None

\* Python's ordering of equal-length tuples of ints.
tuple_ge(a, b) ==
  \/ a[1] > b[1]
  \/ a[1] = b[1] /\ a[2] > b[2]
  \/ a[1] = b[1] /\ a[2] = b[2] /\ a[3] >= b[3]

\* {v for v in map(parse_semver, versions) if v}: None is dropped, every
\* tuple (also (0, 0, 0)) is truthy and kept.
parsed_versions(versions) ==
  {parse_semver(v) : v \in versions} \ {None}

\* max() of an empty set raises ValueError.
max_version_raises(versions) ==
  parsed_versions(versions) = {}

max_version(versions) ==
  LET parsed == parsed_versions(versions)
  IN  CHOOSE m \in parsed : \A v \in parsed : tuple_ge(m, v)

has_complete_mirror_strict(tags, package_versions) ==
  IF tags = {} THEN "False"
  ELSE IF max_version_raises(tags) \/ max_version_raises(package_versions)
    THEN "ValueError"
  ELSE IF max_version(tags) # max_version(package_versions)
          /\ tuple_ge(max_version(tags), max_version(package_versions))
    THEN "True"
  ELSE "False"

\* has_complete_mirror, given the tags get_git_tags reads from the mirror:
\* "True", "False", or "ValueError" when max_version raises.
has_complete_mirror(tags, package_versions) ==
  IF tags = {} THEN "False"
  ELSE IF max_version_raises(tags) \/ max_version_raises(package_versions)
    THEN "ValueError"
  ELSE IF tuple_ge(max_version(tags), max_version(package_versions))
    THEN "True"
  ELSE "False"

(***************************************************************************)
(* The guarded delete.  rmtree_permitted is the condition of the if in     *)
(* careful_rmtree; isdir is os.path.isdir of the stripped path.            *)
(***************************************************************************)
rmtree_permitted(root, cwd, path, isdir) ==
  LET stripped == rstrip(path, SEP)
      abs == abspath(cwd, stripped)
      common_prefix == commonprefix(abs, root)
  IN  /\ isdir
      /\ stripped = abs
      /\ common_prefix = root

(***************************************************************************)
(* The run: main() over the package index, against a filesystem and a      *)
(* remote that answers as it likes.                                        *)
(***************************************************************************)
MaxRuns ==
  2

MaxKills ==
  1

\* Version strings and package names of the model.
V100 ==
  <<"1",".","0",".","0">>

V200 ==
  <<"2",".","0",".","0">>

\* A tag that is no version.
Vv1 ==
  <<"v","1">>

NoVersion ==
  <<>>

NameAbC ==
  <<"a","b","/","c">>

NameCdE ==
  <<"c","d","/","e">>

NameDotDotX ==
  <<".",".","/","x">>

NameTwoSlashes ==
  <<"a","/","/","b">>

\* PACKAGE_ROOT as the module sets it, and a relative --destination-directory.
DefaultRoot ==
  <<"/","v","a","r","/","t","m","p","/","e","l","m","i","r","r","o","r","/">>

RelativeRoot ==
  <<"m","i","r","r","o","r">>

Roots ==
  {DefaultRoot, RelativeRoot}

\* The working directory of the process.
Cwd ==
  <<"/","v","a","r","/","t","m","p">>

\* The package indexes main() may load: name -> versions, in file order.
Pkg(name, versions) ==
  [name |-> name, versions |-> versions]

Indexes ==
  { <<Pkg(NameAbC, {V100, V200}), Pkg(NameDotDotX, {V100})>>,
    <<Pkg(NameDotDotX, {V100}), Pkg(NameAbC, {V100, V200})>>,
    <<Pkg(NameTwoSlashes, {V100}), Pkg(NameCdE, {V100})>>,
    <<Pkg(NameCdE, {Vv1}), Pkg(NameTwoSlashes, {V100})>> }

Names ==
  {NameAbC, NameCdE, NameDotDotX}

\* What a tag's tree holds: descriptor bytes A or B (elm.json of an 0.19
\* package), O (an elm.json whose elm-version is not 0.19), L (only the
\* pre-0.19 elm-package.json), J (an elm.json that is not JSON).
Contents ==
  {"A", "B", "O", "L", "J"}

EmptyMap ==
  [x \in {} |-> "A"]

Put(f, k, v) ==
  [x \in DOMAIN f \cup {k} |-> IF x = k THEN v ELSE f[x]]

\* The tags a remote repository may carry when it is cloned or fetched.
RemoteStates ==
  { EmptyMap,
    Put(EmptyMap, V100, "A"),
    Put(Put(EmptyMap, V100, "A"), V200, "A"),
    Put(Put(EmptyMap, V100, "B"), V200, "A"),
    Put(Put(EmptyMap, V100, "L"), V200, "A"),
    Put(Put(EmptyMap, V100, "J"), V200, "A"),
    Put(Put(EmptyMap, V100, "O"), V200, "A"),
    Put(EmptyMap, Vv1, "A") }

\* What session.head(url) ends with: a response, or an exception once
\* the adapter's retries are exhausted (status 0).
HeadResults ==
  { [raised |-> FALSE, status_code |-> 200],
    [raised |-> FALSE, status_code |-> 301],
    [raised |-> FALSE, status_code |-> 404],
    [raised |-> TRUE, status_code |-> 0] }

\* A mirror directory: kind is "absent", "file" (exists, not a directory),
\* "invalid" (a directory git log -1 fails in) or "valid"; tags maps the
\* tag names to the tagged content; zipball and descriptions are the
\* files under <git_dir>/zipball and <git_dir>/descriptions.
Mirror(kind, tags, zipball, descriptions) ==
  [kind |-> kind, tags |-> tags, zipball |-> zipball,
   descriptions |-> descriptions]

Absent ==
  Mirror("absent", EmptyMap, EmptyMap, EmptyMap)

NotADirectory ==
  Mirror("file", EmptyMap, EmptyMap, EmptyMap)

\* A directory an interrupted clone left behind.
Interrupted ==
  Mirror("invalid", EmptyMap, EmptyMap, EmptyMap)

\* A repository somebody else keeps beside the mirror root.
ForeignRepo ==
  Mirror("valid", Put(EmptyMap, V100, "A"), EmptyMap, EmptyMap)

VARIABLES
  PACKAGE_ROOT,   \* the global set by setup()
  packages,       \* the index main() iterates
  fs,             \* name -> the mirror at package_git_dir(name)
  start,          \* fs when the current run started
  pc,             \* where the process is; "idle" when none runs
  i,              \* position of the for loop of main()
  todo,           \* versions the loop of the extractor has not visited
  cur,            \* the version whose archive is being made
  log,            \* the operations of the current run, in order
  status,         \* how the last run ended
  runs,
  kills,
  arg,            \* the input of a function under test
  ret,            \* its result
  dirs            \* the directories of the filesystem of the guarded delete

vars ==
  <<PACKAGE_ROOT, packages, fs, start, pc, i, todo, cur, log, status,
    runs, kills, arg, ret, dirs>>

harness ==
  <<arg, ret, dirs>>

\* An entry of the log: ver is the version the operation is about (for
\* rmtree, the path careful_rmtree is called with).
Op(op, pkg, ver, res) ==
  [op |-> op, pkg |-> pkg, ver |-> ver, res |-> res]

Name ==
  packages[i].name

Declared ==
  packages[i].versions

Init ==
  /\ PACKAGE_ROOT \in Roots
  /\ packages \in Indexes
  /\ fs \in [Names -> {Absent, NotADirectory, Interrupted, ForeignRepo}]
  /\ \A n \in Names :
       /\ is_valid_repo_name(n) => fs[n] \in {Absent, NotADirectory, Interrupted}
       /\ ~is_valid_repo_name(n) => fs[n] \in {Absent, ForeignRepo}
       /\ (\A k \in 1..Len(packages) : packages[k].name # n) => fs[n] = Absent
  /\ start = fs
  /\ pc = "idle"
  /\ i = 1
  /\ todo = {}
  /\ cur = NoVersion
  /\ log = <<>>
  /\ status = "none"
  /\ runs = 0
  /\ kills = 0
  /\ arg = <<>>
  /\ ret = "none"
  /\ dirs = {}

(***************************************************************************)
(* main(): the loop over the index and its except clause.                  *)
(***************************************************************************)
\* The exceptions the script can raise; all derive from Exception.
ExceptionClasses ==
  {"ValueError", "CalledProcessError", "Exception", "RequestException",
   "JSONDecodeError"}

main_catches_subprocess_only(error) ==
  error = "CalledProcessError"

\* except Exception as error:
main_catches(error) ==
  error \in ExceptionClasses

\* The for loop takes the next package, or main() goes on to the index page.
NextPackage(newfs, newlog) ==
  /\ fs' = newfs
  /\ log' = newlog
  /\ todo' = {}
  /\ cur' = NoVersion
  /\ IF i < Len(packages)
       THEN i' = i + 1 /\ pc' = "mirror"
       ELSE i' = i /\ pc' = "index"
  /\ UNCHANGED <<PACKAGE_ROOT, packages, start, status, runs, kills, harness>>

\* An exception leaves mirror_package: logged by main() and the loop goes
\* on, or the process dies of it.
Raise(error, newfs, newlog) ==
  IF main_catches(error)
    THEN NextPackage(newfs, Append(newlog, Op("error", Name, NoVersion, error)))
    ELSE /\ fs' = newfs
         /\ log' = Append(newlog, Op("traceback", Name, NoVersion, error))
         /\ todo' = {}
         /\ cur' = NoVersion
         /\ pc' = "idle"
         /\ status' = "crashed"
         /\ UNCHANGED <<PACKAGE_ROOT, packages, start, i, runs, kills, harness>>

\* mirror_package goes on to its second if (line 233).
ToCheck(newfs, newlog) ==
  /\ fs' = newfs
  /\ log' = newlog
  /\ pc' = "check"
  /\ UNCHANGED <<PACKAGE_ROOT, packages, start, i, todo, cur, status, runs,
                 kills, harness>>

main_start ==
  /\ pc = "idle"
  /\ runs < MaxRuns
  /\ runs' = runs + 1
  /\ start' = fs
  /\ log' = <<>>
  /\ status' = "running"
  /\ i' = 1
  /\ pc' = "mirror"
  /\ todo' = {}
  /\ cur' = NoVersion
  /\ UNCHANGED <<PACKAGE_ROOT, packages, fs, kills, harness>>

(***************************************************************************)
(* The synchronizer.                                                       *)
(***************************************************************************)
valid_git_repo_never(mirror) ==
  FALSE

\* git log -1 succeeds in the directory.
valid_git_repo(mirror) ==
  mirror.kind = "valid"

is_package_url_available_any_response(req) ==
  ~req.raised

\* return req.status_code in (200, 301)
is_package_url_available(req) ==
  req.status_code \in {200, 301}

\* git clone --quiet --mirror url git_dir: a fresh mirror with the
\* remote's tags, or a non-zero exit that leaves nothing behind.
git_clone(n, newlog) ==
  \/ \E remote \in RemoteStates :
       ToCheck([fs EXCEPT ![n] = Mirror("valid", remote, EmptyMap, EmptyMap)],
               Append(newlog, Op("clone", n, NoVersion, "ok")))
  \/ Raise("CalledProcessError", [fs EXCEPT ![n] = Absent],
           Append(newlog, Op("clone", n, NoVersion, "failed")))

\* git fetch --quiet -p origin in a mirror: every ref is forced to the
\* remote's and refs the remote dropped are pruned; when the branch HEAD
\* names is among them git log -1 fails from then on.
git_fetch(n, newlog) ==
  \/ \E remote \in RemoteStates :
       ToCheck([fs EXCEPT ![n].tags = remote],
               Append(newlog, Op("fetch", n, NoVersion, "ok")))
  \/ \E remote \in RemoteStates :
       ToCheck([fs EXCEPT ![n].tags = remote, ![n].kind = "invalid"],
               Append(newlog, Op("fetch", n, NoVersion, "head pruned")))
  \/ Raise("CalledProcessError", fs,
           Append(newlog, Op("fetch", n, NoVersion, "failed")))

update_package(n, package_versions, newlog) ==
  LET probed == Append(newlog, Op("valid_git_repo", n, NoVersion, ""))
      tagged == Append(probed, Op("get_git_tags", n, NoVersion, ""))
      complete == has_complete_mirror(DOMAIN fs[n].tags, package_versions)
  IN  IF valid_git_repo(fs[n])
        THEN IF complete = "True" THEN ToCheck(fs, tagged)
             ELSE IF complete = "ValueError"
               THEN Raise("ValueError", fs, tagged)
             ELSE \E req \in HeadResults :
                    LET headed == Append(tagged,
                                    Op("head", n, NoVersion,
                                       IF req.raised THEN "raised"
                                       ELSE ToString(req.status_code)))
                    IN  IF req.raised
                          THEN Raise("RequestException", fs, headed)
                        ELSE IF is_package_url_available(req)
                          THEN git_fetch(n, headed)
                        ELSE ToCheck(fs, headed)
        ELSE IF rmtree_permitted(PACKAGE_ROOT, Cwd,
                                 package_git_dir(PACKAGE_ROOT, n),
                                 fs[n].kind \in {"invalid", "valid"})
          THEN git_clone(n, Append(probed,
                                   Op("rmtree", n,
                                      package_git_dir(PACKAGE_ROOT, n),
                                      "deleted")))
        ELSE Raise("Exception", fs,
                   Append(probed,
                          Op("rmtree", n, package_git_dir(PACKAGE_ROOT, n),
                             "refused")))

clone_package(n, newlog) ==
  \E req \in HeadResults :
    LET headed == Append(newlog,
                    Op("head", n, NoVersion,
                       IF req.raised THEN "raised"
                       ELSE ToString(req.status_code)))
    IN  IF req.raised
          THEN Raise("RequestException", fs, headed)
        ELSE IF is_package_url_available(req)
          THEN git_clone(n, Append(headed, Op("makedirs", n, NoVersion, "")))
        ELSE ToCheck(fs, headed)

\* mirror_package up to its second if: lines 222 to 231.
mirror_package ==
  /\ pc = "mirror"
  /\ LET entered == Append(log, Op("mirror_package", Name, NoVersion, ""))
         built == Append(entered, Op("package_git_dir", Name, NoVersion, ""))
     IN  IF split_raises(Name)
           THEN Raise("ValueError", fs, entered)
         ELSE IF ~is_valid_repo_name(Name)
           THEN ToCheck(fs, Append(built, Op("warning", Name, NoVersion, "")))
         ELSE IF fs[Name].kind # "absent"
           THEN update_package(Name, Declared,
                               Append(built, Op("exists", Name, NoVersion, "")))
         ELSE clone_package(Name,
                            Append(built, Op("exists", Name, NoVersion, "")))

(***************************************************************************)
(* The extractor and the rest of mirror_package.                           *)
(***************************************************************************)
\* What git show <version>:elm.json and json.loads make of a tagged tree.
descriptor(content) ==
  CASE content \in {"A", "B"} -> "0.19"
    [] content = "O" -> "not 0.19"
    [] content = "L" -> "no elm.json"
    [] content = "J" -> "not JSON"

Step(newfs, newlog, newpc, newtodo, newcur) ==
  /\ fs' = newfs
  /\ log' = newlog
  /\ pc' = newpc
  /\ todo' = newtodo
  /\ cur' = newcur
  /\ UNCHANGED <<PACKAGE_ROOT, packages, start, i, status, runs, kills,
                 harness>>

versions_every_tag(package_versions, tags) ==
  tags

\* versions = set(package_versions).intersection(tags) (line 122)
versions(package_versions, tags) ==
  package_versions \cap tags

\* if valid_git_repo(git_dir): (line 233), then lines 120 to 122.
mirror_package_check ==
  /\ pc = "check"
  /\ LET probed == Append(log, Op("valid_git_repo", Name, NoVersion, ""))
     IN  IF valid_git_repo(fs[Name])
           THEN Step(fs,
                     probed \o <<Op("create_zipballs_and_descriptions", Name,
                                    NoVersion, ""),
                                 Op("get_git_tags", Name, NoVersion, "")>>,
                     "extract", versions(Declared, DOMAIN fs[Name].tags),
                     NoVersion)
           ELSE NextPackage(fs, probed)

\* One turn of the for loop of create_zipballs_and_descriptions, up to the
\* archive: lines 127 to 144.  A set is iterated in no particular order.
create_zipballs_and_descriptions ==
  /\ pc = "extract"
  /\ \E version \in todo :
       LET content == fs[Name].tags[version]
           shown == Append(log, Op("show", Name, version, descriptor(content)))
       IN  IF descriptor(content) \in {"no elm.json", "not 0.19"}
             THEN Step(fs, shown, "extract", todo \ {version}, NoVersion)
           ELSE IF descriptor(content) = "not JSON"
             THEN Raise("JSONDecodeError", fs, shown)
           ELSE Step([fs EXCEPT ![Name].descriptions =
                                   Put(fs[Name].descriptions, version, content)],
                     Append(shown, Op("write description", Name, version, content)),
                     "archive", todo, version)

\* if not os.path.exists(zip_destination): (line 148)
zip_exists(mirror, version) ==
  version \in DOMAIN mirror.zipball

\* Lines 146 to 153, up to the moment git archive has opened its output.
archive_begin ==
  /\ pc = "archive"
  /\ LET checked == Append(log, Op("exists zipball", Name, cur, ""))
     IN  IF zip_exists(fs[Name], cur)
           THEN Step(fs, checked, "extract", todo \ {cur}, NoVersion)
           ELSE Step([fs EXCEPT ![Name].zipball =
                                   Put(fs[Name].zipball, cur, "empty")],
                     Append(checked, Op("archive", Name, cur, "")),
                     "archiving", todo, cur)

\* git archive --output=zip_destination writes the file in place.
archive_write ==
  /\ pc = "archiving"
  /\ \/ /\ fs[Name].zipball[cur] = "empty"
        /\ Step([fs EXCEPT ![Name].zipball[cur] = "truncated"], log,
                "archiving", todo, cur)
     \/ /\ fs[Name].zipball[cur] = "truncated"
        /\ Step([fs EXCEPT ![Name].zipball[cur] = fs[Name].tags[cur]], log,
                "extract", todo \ {cur}, NoVersion)
     \/ Raise("CalledProcessError", fs,
              Append(log, Op("archive failed", Name, cur, "")))

\* The loop is over; git_update_server_info (line 235).
git_update_server_info ==
  /\ pc = "extract"
  /\ todo = {}
  /\ NextPackage(fs, Append(log, Op("update-server-info", Name, NoVersion, "")))

\* Lines 342 to 345: the index page; the process exits.
main_index ==
  /\ pc = "index"
  /\ pc' = "idle"
  /\ status' = "finished"
  /\ log' = Append(log, Op("index.html", <<>>, NoVersion, ""))
  /\ UNCHANGED <<PACKAGE_ROOT, packages, fs, start, i, todo, cur, runs, kills,
                 harness>>

\* The process is killed.
kill ==
  /\ pc # "idle"
  /\ kills < MaxKills
  /\ kills' = kills + 1
  /\ pc' = "idle"
  /\ status' = "killed"
  /\ UNCHANGED <<PACKAGE_ROOT, packages, fs, start, i, todo, cur, log, runs,
                 harness>>

Next ==
  \/ main_start
  \/ mirror_package
  \/ mirror_package_check
  \/ create_zipballs_and_descriptions
  \/ archive_begin
  \/ archive_write
  \/ git_update_server_info
  \/ main_index
  \/ kill

Spec ==
  Init /\ [][Next]_vars

(***************************************************************************)
(* The guarded delete on its own: careful_rmtree called with any target    *)
(* under any configured root.  Each root and target is listed with the     *)
(* components of the directory it names when the working directory is      *)
(* /data.                                                                  *)
(***************************************************************************)
MaxCalls ==
  2

RmCwd ==
  <<"/","d","a","t","a">>

RmRoots ==
  { [path |-> <<"/","d","a","t","a","/","m","i","r","r","o","r">>,
     resolved |-> <<"data", "mirror">>],
    [path |-> <<"/","d","a","t","a","/","m","i","r","r","o","r","/">>,
     resolved |-> <<"data", "mirror">>],
    [path |-> <<"m","i","r","r","o","r">>,
     resolved |-> <<"data", "mirror">>],
    [path |-> <<"/">>,
     resolved |-> <<>>] }

RmTargets ==
  { [path |-> <<"/","d","a","t","a","/","o","t","h","e","r">>,
     resolved |-> <<"data", "other">>],
    [path |-> <<"/","d","a","t","a","/","m","i","r","r","o","r">>,
     resolved |-> <<"data", "mirror">>],
    [path |-> <<"/","d","a","t","a","/","m","i","r","r","o","r","/">>,
     resolved |-> <<"data", "mirror">>],
    [path |-> <<"/","d","a","t","a","/","m","i","r","r","o","r","2">>,
     resolved |-> <<"data", "mirror2">>],
    [path |-> <<"/","d","a","t","a","/","m","i","r","r","o","r","2","/","x">>,
     resolved |-> <<"data", "mirror2", "x">>],
    [path |-> <<"/","d","a","t","a","/","m","i","r","r","o","r","/","a","b","/","c">>,
     resolved |-> <<"data", "mirror", "ab", "c">>],
    [path |-> <<"/","d","a","t","a","/","m","i","r","r","o","r","/","a","b","/","c","/">>,
     resolved |-> <<"data", "mirror", "ab", "c">>],
    [path |-> <<"/","d","a","t","a","/","m","i","r","r","o","r","/","a","b">>,
     resolved |-> <<"data", "mirror", "ab">>],
    [path |-> <<"/","d","a","t","a","/","m","i","r","r","o","r","/","a","b","/",".",".","/",".",".","/","o","t","h","e","r">>,
     resolved |-> <<"data", "other">>],
    [path |-> <<"/","d","a","t","a","/","m","i","r","r","o","r","/",".",".","/","m","i","r","r","o","r","2">>,
     resolved |-> <<"data", "mirror2">>],
    [path |-> <<"/","d","a","t","a","/","m","i","r","r","o","r","/","a","b","/",".","/","c">>,
     resolved |-> <<"data", "mirror", "ab", "c">>],
    [path |-> <<"m","i","r","r","o","r","/","a","b","/","c">>,
     resolved |-> <<"data", "mirror", "ab", "c">>],
    [path |-> <<"/","d","a","t","a","/","m","i","r","r","o","r","/","n","o","p","e">>,
     resolved |-> <<"data", "mirror", "nope">>],
    [path |-> <<"/","d","a","t","a">>,
     resolved |-> <<"data">>],
    [path |-> <<"/">>,
     resolved |-> <<>>] }

RmDirs ==
  { <<"/">>,
    <<"/","d","a","t","a">>,
    <<"/","d","a","t","a","/","m","i","r","r","o","r">>,
    <<"/","d","a","t","a","/","m","i","r","r","o","r","/","a","b">>,
    <<"/","d","a","t","a","/","m","i","r","r","o","r","/","a","b","/","c">>,
    <<"/","d","a","t","a","/","m","i","r","r","o","r","2">>,
    <<"/","d","a","t","a","/","m","i","r","r","o","r","2","/","x">>,
    <<"/","d","a","t","a","/","o","t","h","e","r">> }

\* os.path.isdir(path) and shutil.rmtree(path) on the set of directories.
isdir(cwd, path) ==
  /\ path # <<>>
  /\ abspath(cwd, path) \in dirs

rmtree(cwd, path) ==
  {d \in dirs : /\ d # abspath(cwd, path)
                /\ ~startswith(d, abspath(cwd, path) \o <<SEP>>)}

InitRmtree ==
  /\ \E r \in RmRoots : PACKAGE_ROOT = r.path
  /\ dirs = RmDirs
  /\ arg = <<>>
  /\ ret = "none"
  /\ runs = 0
  /\ packages = <<>>
  /\ fs = [n \in Names |-> Absent]
  /\ start = fs
  /\ pc = "idle"
  /\ i = 1
  /\ todo = {}
  /\ cur = NoVersion
  /\ log = <<>>
  /\ status = "none"
  /\ kills = 0

careful_rmtree ==
  /\ runs < MaxCalls
  /\ \E target \in RmTargets :
       /\ arg' = <<target, dirs>>
       /\ IF rmtree_permitted(PACKAGE_ROOT, RmCwd, target.path,
                              isdir(RmCwd, rstrip(target.path, SEP)))
            THEN /\ dirs' = rmtree(RmCwd, rstrip(target.path, SEP))
                 /\ ret' = "deleted"
            ELSE /\ dirs' = dirs
                 /\ ret' = "raised"
  /\ runs' = runs + 1
  /\ UNCHANGED <<PACKAGE_ROOT, packages, fs, start, pc, i, todo, cur, log,
                 status, kills>>

NextRmtree ==
  careful_rmtree

SpecRmtree ==
  InitRmtree /\ [][NextRmtree]_vars

(***************************************************************************)
(* The completeness check on its own: has_complete_mirror on any tags and  *)
(* any declared versions.  Each string is listed with the version it       *)
(* denotes, <<>> when it denotes none.                                     *)
(***************************************************************************)
MaxStrings ==
  2

VersionStrings ==
  { [str |-> <<"1",".","0",".","0">>, denotes |-> <<1, 0, 0>>],
    [str |-> <<"0",".","9",".","0">>, denotes |-> <<0, 9, 0>>],
    [str |-> <<"2",".","0",".","0">>, denotes |-> <<2, 0, 0>>],
    [str |-> <<"1",".","1","0",".","0">>, denotes |-> <<1, 10, 0>>],
    [str |-> <<"1",".","9",".","0">>, denotes |-> <<1, 9, 0>>],
    [str |-> <<"v","1",".","0",".","0">>, denotes |-> <<>>],
    [str |-> <<"1",".","0">>, denotes |-> <<>>] }

SmallSets ==
  {S \in SUBSET VersionStrings : Cardinality(S) <= MaxStrings}

InitComplete ==
  /\ arg \in SmallSets \X SmallSets
  /\ ret = "none"
  /\ dirs = {}
  /\ runs = 0
  /\ PACKAGE_ROOT = DefaultRoot
  /\ packages = <<>>
  /\ fs = [n \in Names |-> Absent]
  /\ start = fs
  /\ pc = "idle"
  /\ i = 1
  /\ todo = {}
  /\ cur = NoVersion
  /\ log = <<>>
  /\ status = "none"
  /\ kills = 0

has_complete_mirror_call ==
  /\ ret = "none"
  /\ ret' = has_complete_mirror({t.str : t \in arg[1]}, {v.str : v \in arg[2]})
  /\ UNCHANGED <<PACKAGE_ROOT, packages, fs, start, pc, i, todo, cur, log,
                 status, runs, kills, arg, dirs>>

NextComplete ==
  has_complete_mirror_call

SpecComplete ==
  InitComplete /\ [][NextComplete]_vars

(***************************************************************************)
(* The name validator on its own: is_valid_repo_name on every short string *)
(* over a small alphabet and on the names the specification lists.         *)
(***************************************************************************)
MaxNameLen ==
  5

NameAlphabet ==
  {"a", "-", "_", ".", SEP, NL}

ListedNames ==
  { <<".",".","/","x">>,
    <<"a","/","/","b">>,
    <<"-","u","s","e","r","/","r","e","p","o">>,
    <<"u","s","e","r","/">>,
    <<"u","s","e","r","/","r","e","p","o">>,
    <<"A","0","/","Z","_","9">> }

NameStrings ==
  UNION {[1..n -> NameAlphabet] : n \in 0..MaxNameLen} \cup ListedNames

InitValidate ==
  /\ arg \in NameStrings
  /\ ret = "none"
  /\ dirs = {}
  /\ runs = 0
  /\ PACKAGE_ROOT = DefaultRoot
  /\ packages = <<>>
  /\ fs = [n \in Names |-> Absent]
  /\ start = fs
  /\ pc = "idle"
  /\ i = 1
  /\ todo = {}
  /\ cur = NoVersion
  /\ log = <<>>
  /\ status = "none"
  /\ kills = 0

is_valid_repo_name_call ==
  /\ ret = "none"
  /\ ret' = IF is_valid_repo_name(arg) THEN "True" ELSE "False"
  /\ UNCHANGED <<PACKAGE_ROOT, packages, fs, start, pc, i, todo, cur, log,
                 status, runs, kills, arg, dirs>>

NextValidate ==
  is_valid_repo_name_call

SpecValidate ==
  InitValidate /\ [][NextValidate]_vars

(***************************************************************************)
(* The claims.                                                             *)
(***************************************************************************)
LogIndex ==
  1..Len(log)

\* The package's turn in the loop of main() is over after entry k.
TurnOver(k) ==
  \E j \in LogIndex : j > k /\ log[j].op \in {"mirror_package", "index.html"}

StrictDescendant(t, r) ==
  /\ Len(t) > Len(r)
  /\ SubSeq(t, 1, Len(r)) = r

RootResolved ==
  (CHOOSE r \in RmRoots : r.path = PACKAGE_ROOT).resolved

\* C1: the guarded delete removes a tree only when the target resolves to
\* a strict descendant of the configured root; for every other target it
\* raises and leaves the filesystem as it was.
C1_GuardedDeleteConfined ==
  ret # "none" =>
    /\ ret = "deleted" => StrictDescendant(arg[1].resolved, RootResolved)
    /\ ~StrictDescendant(arg[1].resolved, RootResolved) =>
         ret = "raised" /\ dirs = arg[2]

\* C2: once the guarded delete has refused a target, the run is over: the
\* error is not logged by the loop, no further package is taken up and
\* the index page is not written.
C2_RefusalAbortsRun ==
  \A k \in LogIndex :
    (log[k].op = "rmtree" /\ log[k].res = "refused") =>
      \A j \in LogIndex :
        j > k => log[j].op \notin {"error", "mirror_package", "index.html"}

\* C3: for a name the validator rejects, no path is built and nothing is
\* done on the filesystem or the network: the run only enters
\* mirror_package, warns, and goes on.
C3_RejectedNameUntouched ==
  \A k \in LogIndex :
    (log[k].op # "index.html" /\ ~is_valid_repo_name(log[k].pkg)) =>
      log[k].op \in {"mirror_package", "warning"}

\* C4: an archive or manifest that held content when a run started holds
\* the same content at every point of that run.
C4_ArtifactsWriteOnce ==
  \A n \in Names :
    /\ \A v \in DOMAIN start[n].zipball :
         start[n].zipball[v] # "empty" =>
           /\ v \in DOMAIN fs[n].zipball
           /\ fs[n].zipball[v] = start[n].zipball[v]
    /\ \A v \in DOMAIN start[n].descriptions :
         /\ v \in DOMAIN fs[n].descriptions
         /\ fs[n].descriptions[v] = start[n].descriptions[v]

\* C5: after the process was killed, no archive path holds a file that is
\* not the complete archive (such a file is what line 148 takes for done).
C5_NoHalfArchiveAfterKill ==
  (pc = "idle" /\ status = "killed") =>
    \A n \in Names :
      \A v \in DOMAIN fs[n].zipball :
        fs[n].zipball[v] \notin {"empty", "truncated"}

\* C6: when the probe of a valid, incomplete mirror does not answer 200
\* or 301, no fetch is issued, no error follows, and the extractor still
\* runs for the package.
C6_ProbeFailureIsSoft ==
  \A k \in LogIndex :
    ( /\ log[k].op = "head"
      /\ log[k].res \notin {"200", "301"}
      /\ start[log[k].pkg].kind = "valid" ) =>
        /\ \A j \in LogIndex : log[j].pkg = log[k].pkg => log[j].op # "fetch"
        /\ k < Len(log) => log[k + 1].op \notin {"error", "traceback"}
        /\ TurnOver(k) =>
             \E j \in LogIndex :
               /\ j > k
               /\ log[j].op = "create_zipballs_and_descriptions"
               /\ log[j].pkg = log[k].pkg

\* C7: no error leaves the synchronizer because the remote did not
\* answer: neither the probe nor the clone that follows the guarded
\* delete is followed by an error.
C7_NoErrorOnUnavailableRemote ==
  \A k \in LogIndex :
    (k > 2 /\ log[k].op \in {"error", "traceback"}) =>
      /\ log[k - 1].op # "head"
      /\ ~(log[k - 1].op = "clone" /\ log[k - 2].op = "rmtree")

\* C8: an error while one package is processed is caught by the loop of
\* main(): the next package of the index is taken up right after it (the
\* index page after the last), the process never dies of it, and a run
\* that finishes has taken up every package and written the index page.
C8_PackageErrorsAreCaught ==
  /\ status # "crashed"
  /\ \A k \in LogIndex : log[k].op # "traceback"
  /\ \A k \in LogIndex :
       (log[k].op = "error" /\ k < Len(log)) =>
         \E p \in 1..Len(packages) :
           /\ packages[p].name = log[k].pkg
           /\ IF p < Len(packages)
                THEN /\ log[k + 1].op = "mirror_package"
                     /\ log[k + 1].pkg = packages[p + 1].name
                ELSE log[k + 1].op = "index.html"
  /\ status = "finished" =>
       /\ log[Len(log)].op = "index.html"
       /\ \A p \in 1..Len(packages) :
            \E k \in LogIndex :
              log[k].op = "mirror_package" /\ log[k].pkg = packages[p].name

\* A finished run whose first package raised and whose second was processed.
C8_Witness ==
  /\ status = "finished"
  /\ \E k \in LogIndex :
       /\ log[k].op = "error"
       /\ log[k].pkg = packages[1].name
       /\ log[k].res # "CalledProcessError"
  /\ \E k \in LogIndex :
       log[k].op = "update-server-info" /\ log[k].pkg = packages[2].name

\* The mirror is complete for the declared versions and every declared,
\* tagged version has its archive and its manifest.
FullySyncedAndArchived(mirror, package_versions) ==
  /\ mirror.kind = "valid"
  /\ has_complete_mirror(DOMAIN mirror.tags, package_versions) = "True"
  /\ \A v \in package_versions \cap DOMAIN mirror.tags :
       /\ v \in DOMAIN mirror.zipball
       /\ mirror.zipball[v] = mirror.tags[v]
       /\ v \in DOMAIN mirror.descriptions
       /\ mirror.descriptions[v] = mirror.tags[v]

\* C9: a run that follows a finished run, over a package that was fully
\* synced and fully archived when it started, clones nothing, fetches
\* nothing and writes no archive and no other file of the package.
C9_SecondRunWritesNothing ==
  (runs >= 2 /\ kills = 0) =>
    \A p \in 1..Len(packages) :
      ( /\ is_valid_repo_name(packages[p].name)
        /\ FullySyncedAndArchived(start[packages[p].name],
                                  packages[p].versions) ) =>
          \A k \in LogIndex :
            log[k].pkg = packages[p].name =>
              log[k].op \notin {"clone", "fetch", "rmtree", "makedirs",
                                "archive", "write description"}

Denoted(S) ==
  {x.denotes : x \in S} \ {<<>>}

LexGE(a, b) ==
  \/ a = b
  \/ \E k \in 1..3 : a[k] > b[k] /\ \A j \in 1..(k - 1) : a[j] = b[j]

\* C10: with a version on either side, the check returns true exactly
\* when the greatest version among the tags is at least the greatest
\* declared version; with no tags at all it returns false.
C10_CompleteIffMaxTagAtLeastMaxDeclared ==
  ret # "none" =>
    /\ arg[1] = {} => ret = "False"
    /\ (Denoted(arg[1]) # {} /\ Denoted(arg[2]) # {}) =>
         /\ ret \in {"True", "False"}
         /\ ret = "True" <=>
              \E t \in Denoted(arg[1]) :
                \A v \in Denoted(arg[2]) : LexGE(t, v)

\* 1.10.0 against a declared 1.9.0, beside a tag that is no version.
C10_Witness ==
  /\ ret = "True"
  /\ Denoted(arg[1]) = {<<1, 10, 0>>}
  /\ Denoted(arg[2]) = {<<1, 9, 0>>}
  /\ Cardinality(arg[1]) = 2

\* C11: when update_package finds a valid mirror that has tags while
\* neither the tags nor the declared versions hold a parseable version,
\* the completeness check answers "not complete" without an error, and the
\* synchronizer goes on to the probe of the remote.
C11_NoComparableVersionIsIncomplete ==
  \A k \in LogIndex :
    ( /\ k > 1
      /\ k < Len(log)
      /\ log[k].op = "get_git_tags"
      /\ log[k - 1].op = "valid_git_repo"
      /\ DOMAIN start[log[k].pkg].tags # {}
      /\ parsed_versions(DOMAIN start[log[k].pkg].tags) = {}
      /\ \E p \in 1..Len(packages) :
           /\ packages[p].name = log[k].pkg
           /\ parsed_versions(packages[p].versions) = {} ) =>
        log[k + 1].op = "head"

\* The declared versions of a package of the index.
DeclaredOf(n) ==
  (CHOOSE q \in {packages[p] : p \in 1..Len(packages)} : q.name = n).versions

\* C12: when the descriptor of one version is missing or is not
\* well-formed, no manifest and no archive is written for that version,
\* no error ends the package, and by the end of the package's turn every
\* declared and tagged version has been visited by the extractor.
C12_UnreadableDescriptorSkipsOnlyThatVersion ==
  \A k \in LogIndex :
    (log[k].op = "show" /\ log[k].res \in {"no elm.json", "not JSON"}) =>
      /\ k < Len(log) => log[k + 1].op \notin {"error", "traceback"}
      /\ \A j \in LogIndex :
           (j > k /\ log[j].pkg = log[k].pkg /\ log[j].ver = log[k].ver) =>
             log[j].op \notin {"write description", "archive"}
      /\ TurnOver(k) =>
           \A v \in DeclaredOf(log[k].pkg) \cap DOMAIN fs[log[k].pkg].tags :
             \E j \in LogIndex :
               /\ log[j].op = "show"
               /\ log[j].pkg = log[k].pkg
               /\ log[j].ver = v

\* owner/path: owner of alphanumerics or hyphens, at least two long, with
\* no hyphen first or last; path of alphanumerics, underscore, hyphen or
\* dot, at least one long.
OwnerPathGrammar(s) ==
  \E p \in 1..Len(s) :
    LET owner == SubSeq(s, 1, p - 1)
        path == SubSeq(s, p + 1, Len(s))
    IN  /\ s[p] = "/"
        /\ Len(owner) >= 2
        /\ \A j \in 1..Len(owner) : owner[j] \in Alnum \cup {"-"}
        /\ owner[1] # "-"
        /\ owner[Len(owner)] # "-"
        /\ Len(path) >= 1
        /\ \A j \in 1..Len(path) : path[j] \in Alnum \cup {"_", "-", "."}

\* C13: the validator accepts a string exactly when it is of the
\* owner/path grammar, and rejects "../x", "a//b", "-user/repo" and
\* "user/".
C13_ValidatorAcceptsExactlyTheGrammar ==
  ret # "none" =>
    /\ ret = "True" <=> OwnerPathGrammar(arg)
    /\ arg \in { <<".",".","/","x">>,
                  <<"a","/","/","b">>,
                  <<"-","u","s","e","r","/","r","e","p","o">>,
                  <<"u","s","e","r","/">> } =>
         ret = "False"

IndexNames ==
  {packages[p].name : p \in 1..Len(packages)} \cap Names

\* The current run has logged one of the operations for the package.
Issued(n, ops) ==
  \E k \in LogIndex : log[k].pkg = n /\ log[k].op \in ops

\* The probe of the package's remote did not answer 200 or 301.
Unreachable(n) ==
  \E k \in LogIndex :
    /\ log[k].op = "head"
    /\ log[k].pkg = n
    /\ log[k].res \notin {"200", "301"}

CompleteAtStart(n) ==
  /\ start[n].kind = "valid"
  /\ has_complete_mirror(DOMAIN start[n].tags, DeclaredOf(n)) = "True"

StaleAtStart(n) ==
  /\ start[n].kind = "valid"
  /\ has_complete_mirror(DOMAIN start[n].tags, DeclaredOf(n)) = "False"

\* No probe, clone, fetch or delete was issued and the repository is as it
\* was when the run started.
NotProbedNotSynced(n) ==
  /\ ~Issued(n, {"head", "makedirs", "clone", "fetch", "rmtree"})
  /\ fs[n].kind = "valid"
  /\ fs[n].tags = start[n].tags

StillAbsent(n) ==
  /\ ~Issued(n, {"makedirs", "clone", "fetch", "rmtree"})
  /\ fs[n] = Absent

StillStale(n) ==
  /\ ~Issued(n, {"makedirs", "clone", "fetch", "rmtree"})
  /\ fs[n].kind = "valid"
  /\ fs[n].tags = start[n].tags

\* C14: where the transition table says no-op the repository is left as
\* it was: for a complete mirror no probe, clone, fetch or delete is
\* issued; an absent mirror whose remote is unreachable stays absent with
\* nothing created; a stale mirror whose remote is unreachable is neither
\* fetched nor deleted and keeps its tags.  (Each implication is written
\* consequent first.)
C14_NoOpLeavesMirrorUnchanged ==
  \A n \in IndexNames :
    /\ NotProbedNotSynced(n) \/ ~CompleteAtStart(n)
    /\ StillAbsent(n) \/ ~(start[n].kind = "absent" /\ Unreachable(n))
    /\ StillStale(n) \/ ~(Unreachable(n) /\ StaleAtStart(n))

\* A finished run that found one package stale with its remote answering
\* 404, and extracted from the mirror as it was.
C14_Witness ==
  /\ status = "finished"
  /\ \E n \in IndexNames :
       /\ StaleAtStart(n)
       /\ Unreachable(n)
       /\ Issued(n, {"update-server-info"})

\* The guarded delete removed the package's directory earlier in the run.
DeletedBefore(k) ==
  \E j \in 1..(k - 1) :
    /\ log[j].op = "rmtree"
    /\ log[j].pkg = log[k].pkg
    /\ log[j].res = "deleted"

\* C15: the extractor writes the manifest of a version only when no
\* manifest exists for it: in a run that follows an undisturbed run, a
\* manifest of an accepted package that was there when the run started
\* (and was not deleted with the directory since) is not written again.
C15_ManifestWrittenOnlyWhenMissing ==
  kills = 0 =>
    \A k \in LogIndex :
      ( /\ log[k].op = "write description"
        /\ ~DeletedBefore(k)
        /\ is_valid_repo_name(log[k].pkg) ) =>
          log[k].ver \notin DOMAIN start[log[k].pkg].descriptions

\* The archive of the version was in place, with content, when the run
\* started.
NonEmptyArchiveAtStart(n, v) ==
  /\ v \in DOMAIN start[n].zipball
  /\ start[n].zipball[v] # "empty"

\* C16: for an accepted package the extractor skips the archive of a
\* version exactly when an archive with content exists for it; when the
\* archive is absent or is an empty file, git archive is run for the
\* version.
C16_ArchiveSkippedIffNonEmpty ==
  \A k \in LogIndex :
    ( /\ log[k].op = "exists zipball"
      /\ k < Len(log)
      /\ ~DeletedBefore(k)
      /\ is_valid_repo_name(log[k].pkg) ) =>
        (log[k + 1].op # "archive" <=>
           NonEmptyArchiveAtStart(log[k].pkg, log[k].ver))

\* C17: within one package the probe precedes the clone or fetch, which
\* precede the extraction; and when the mirror is valid after the
\* synchronization (the extractor is entered) and no git command of the
\* extractor fails, then by the end of the package's turn
\* update-server-info has run, after every declared and tagged version
\* was visited and after every write of the extractor.
C17_RefreshFollowsExtraction ==
  \A k \in LogIndex :
    log[k].op = "create_zipballs_and_descriptions" =>
      /\ \A j \in LogIndex :
           ( /\ log[j].pkg = log[k].pkg
             /\ log[j].op \in {"head", "makedirs", "rmtree", "clone", "fetch"} ) =>
               j < k
      /\ \A j \in LogIndex :
           (log[j].pkg = log[k].pkg /\ log[j].op = "head") =>
             \A m \in LogIndex :
               ( /\ log[m].pkg = log[k].pkg
                 /\ log[m].op \in {"makedirs", "clone", "fetch"} ) =>
                   j < m
      /\ (TurnOver(k) /\ ~Issued(log[k].pkg, {"archive failed"})) =>
           \E r \in LogIndex :
             /\ r > k
             /\ log[r].op = "update-server-info"
             /\ log[r].pkg = log[k].pkg
             /\ \A j \in LogIndex :
                  ( /\ log[j].pkg = log[k].pkg
                    /\ log[j].op \in {"show", "write description",
                                      "exists zipball", "archive"} ) =>
                      j < r
             /\ \A v \in DeclaredOf(log[k].pkg) \cap DOMAIN fs[log[k].pkg].tags :
                  \E j \in LogIndex :
                    /\ log[j].op = "show"
                    /\ log[j].pkg = log[k].pkg
                    /\ log[j].ver = v

\* C18: when the tagged tree has no elm.json but has the descriptor under
\* its earlier name, elm-package.json, the extractor reads that one and
\* goes on to write the manifest of the version (and then its archive).
C18_LegacyDescriptorIsRead ==
  \A k \in LogIndex :
    ( /\ log[k].op = "show"
      /\ log[k].res = "no elm.json"
      /\ fs[log[k].pkg].tags[log[k].ver] = "L"
      /\ k < Len(log) ) =>
        /\ log[k + 1].op = "write description"
        /\ log[k + 1].ver = log[k].ver

\* The versions that got an archive or a manifest since the run started.
NewArtifacts(n) ==
  (DOMAIN fs[n].zipball \ DOMAIN start[n].zipball)
    \cup (DOMAIN fs[n].descriptions \ DOMAIN start[n].descriptions)

\* C19: every manifest and every archive the extractor writes is for a
\* version that is both declared for the package and a tag of its mirror:
\* none for a tag that is not declared, none for a declared version that
\* has no tag.
C19_ArtifactsOnlyForDeclaredAndTagged ==
  /\ \A k \in LogIndex :
       log[k].op \in {"write description", "archive"} =>
         /\ log[k].ver \in DeclaredOf(log[k].pkg)
         /\ log[k].ver \in DOMAIN fs[log[k].pkg].tags
  /\ \A n \in IndexNames :
       \A v \in NewArtifacts(n) :
         /\ v \in DeclaredOf(n)
         /\ v \in DOMAIN fs[n].tags

\* A finished run that archived a package whose mirror has a tag that is
\* not declared.
C19_Witness ==
  /\ status = "finished"
  /\ \E n \in IndexNames :
       /\ NewArtifacts(n) # {}
       /\ Issued(n, {"archive"})
       /\ DOMAIN fs[n].tags \ DeclaredOf(n) # {}

\* <root>/<owner>/<repo> for a name with one slash.
MirrorPathOf(n) ==
  LET p == CHOOSE j \in 1..Len(n) : n[j] = "/"
      owner == SubSeq(n, 1, p - 1)
      repo == SubSeq(n, p + 1, Len(n))
      root == IF PACKAGE_ROOT[Len(PACKAGE_ROOT)] = "/"
                THEN PACKAGE_ROOT
                ELSE PACKAGE_ROOT \o <<"/">>
  IN  root \o owner \o <<"/">> \o repo

\* How many entries of the log are one of the operations on the package.
TimesIssued(n, ops) ==
  Cardinality({k \in LogIndex : log[k].pkg = n /\ log[k].op \in ops})

\* C20: careful_rmtree is called only for a package whose name the
\* validator accepts and whose mirror path existed and failed
\* valid_git_repo when the run started, and then with
\* <root>/<owner>/<repo>; and per package and run there is at most one
\* clone or fetch, at most one delete, a delete only right before the
\* clone, and never a delete together with a fetch.
C20_DeleteOnlyForInvalidMirrorOfAcceptedName ==
  /\ \A k \in LogIndex :
       log[k].op = "rmtree" =>
         /\ is_valid_repo_name(log[k].pkg)
         /\ start[log[k].pkg].kind \in {"file", "invalid"}
         /\ log[k].ver = MirrorPathOf(log[k].pkg)
         /\ \A j \in LogIndex :
              (log[j].pkg = log[k].pkg /\ log[j].op = "clone") => j = k + 1
  /\ \A n \in IndexNames :
       /\ TimesIssued(n, {"clone", "fetch"}) <= 1
       /\ TimesIssued(n, {"rmtree"}) <= 1
       /\ ~(Issued(n, {"rmtree"}) /\ Issued(n, {"fetch"}))

\* A finished run in which the directory an interrupted clone had left
\* was deleted and the package cloned anew.
C20_Witness ==
  /\ status = "finished"
  /\ \E k \in LogIndex :
       /\ log[k].op = "rmtree"
       /\ log[k].res = "deleted"
       /\ k < Len(log)
       /\ log[k + 1].op = "clone"
       /\ log[k + 1].res = "ok"

====
